---- MODULE Spec2Model ----
(***************************************************************************)
(* Model of app.py: the start_extraction gateway (handle_extraction), the  *)
(* background extraction_task, the orchestrator                            *)
(* download_and_transcribe_with_progress, the ProgressHook relay and the   *)
(* URL validator extract_video_id.                                         *)
(*                                                                         *)
(* Text is a sequence of one-character strings.  A number the code holds   *)
(* as a float is an exact fraction <<numerator, denominator>>.  Python's   *)
(* None is the empty tuple for numbers and text, NoDir for a directory.    *)
(***************************************************************************)
EXTENDS Integers, Sequences, FiniteSets, TLC

VARIABLES connected, tasks, dirs, server

vars == <<connected, tasks, dirs, server>>

(* ---------------------------- bounds ----------------------------------- *)

\* start_extraction messages handled in one run of Spec (concurrent requests)
MaxReq == 2
\* download notifications the download tool sends to the relay in one download
MaxNotif == 2
\* segments of the longest recognition result
MaxSeg == 11
\* the largest byte count in a notification of the download tool
MaxBytes == 3
\* pieces of the longest URL given to the validator
MaxPieces == 3

(* ------------------------- program constants --------------------------- *)

IdLen == 11
MinFreeMb == 100
SampleEvery == 10
\* the port main() listens on when PORT is not set
DefaultPort == 5000

MiB == 1024 * 1024

Clients == {"c1", "c2"}
DirNames == {"tmpA", "tmpB", "tmpC"}
NoDir == "none"
None == <<>>

(* ------------------------------ numbers -------------------------------- *)

Rat(n, d) == <<n, d>>
RatLt(a, b) == a[1] * b[2] < b[1] * a[2]
RatLeq(a, b) == a[1] * b[2] <= b[1] * a[2]
RatEq(a, b) == a[1] * b[2] = b[1] * a[2]

(* ------------------------------- text ---------------------------------- *)

Lower == {"a","b","c","d","e","f","g","h","i","j","k","l","m",
          "n","o","p","q","r","s","t","u","v","w","x","y","z"}
Upper == {"A","B","C","D","E","F","G","H","I","J","K","L","M",
          "N","O","P","Q","R","S","T","U","V","W","X","Y","Z"}
Digit == {"0","1","2","3","4","5","6","7","8","9"}
\* the character class [a-zA-Z0-9_-]
IdChars == Lower \cup Upper \cup Digit \cup {"_", "-"}
Whitespace == {" ", "\t", "\n", "\r"}

\* re.search(r'(?:v=|\/)([a-zA-Z0-9_-]{11})', url): the places where the
\* pattern matches, p being the index of the first character of the group
IdAt(url, p) ==
    /\ p + IdLen - 1 <= Len(url)
    /\ \/ p >= 2 /\ url[p - 1] = "/"
       \/ p >= 3 /\ url[p - 2] = "v" /\ url[p - 1] = "="
    /\ \A k \in p .. (p + IdLen - 1) : url[k] \in IdChars

MatchStarts(url) == {p \in 1 .. Len(url) : IdAt(url, p)}

\* the start of the whole match (the marker), which is what makes a match
\* the leftmost one
MarkerOf(url, p) == IF url[p - 1] = "/" THEN p - 1 ELSE p - 2

\* a validator that prefers an identifier after 'v=' to one after '/'
extract_video_id_PreferV(url) ==
    LET starts == MatchStarts(url)
        after_v == {q \in starts : url[q - 1] = "="}
        pool == IF after_v # {} THEN after_v ELSE starts
    IN
    IF starts = {} THEN None
    ELSE LET p == CHOOSE q \in pool : \A q2 \in pool : q <= q2
         IN  SubSeq(url, p, p + IdLen - 1)

\* re.search(r'(?:v=|\/)([a-zA-Z0-9_-]{11})', url): group 1 of the leftmost
\* match, None when nothing matches
extract_video_id(url) ==
    LET starts == MatchStarts(url) IN
    IF starts = {} THEN None
    ELSE LET p == CHOOSE q \in starts :
                      \A q2 \in starts : MarkerOf(url, q) <= MarkerOf(url, q2)
         IN  SubSeq(url, p, p + IdLen - 1)

RECURSIVE Join(_)
\* " ".join(parts)
Join(parts) ==
    IF Len(parts) = 0 THEN <<>>
    ELSE IF Len(parts) = 1 THEN parts[1]
    ELSE parts[1] \o <<" ">> \o Join(Tail(parts))

RECURSIVE LStrip(_)
LStrip(s) == IF Len(s) > 0 /\ s[1] \in Whitespace THEN LStrip(Tail(s)) ELSE s

RECURSIVE RStrip(_)
RStrip(s) ==
    IF Len(s) > 0 /\ s[Len(s)] \in Whitespace THEN RStrip(SubSeq(s, 1, Len(s) - 1)) ELSE s

\* str.strip()
Strip(s) == RStrip(LStrip(s))


\* str.replace(old, ''), old a single character
Remove(s, old) == SelectSeq(s, LAMBDA c : c # old)

DigitVal(c) ==
    CASE c = "0" -> 0 [] c = "1" -> 1 [] c = "2" -> 2 [] c = "3" -> 3 [] c = "4" -> 4
      [] c = "5" -> 5 [] c = "6" -> 6 [] c = "7" -> 7 [] c = "8" -> 8 [] c = "9" -> 9

RECURSIVE NatOf(_)
NatOf(s) == IF Len(s) = 0 THEN 0 ELSE 10 * NatOf(SubSeq(s, 1, Len(s) - 1)) + DigitVal(s[Len(s)])

RECURSIVE Pow10(_)
Pow10(k) == IF k = 0 THEN 1 ELSE 10 * Pow10(k - 1)

AllDigits(s) == \A k \in 1 .. Len(s) : s[k] \in Digit

\* float(text) for unsigned decimal text, surrounding whitespace ignored;
\* None stands for the ValueError float raises on any other text modelled
ParseFloat(text) ==
    LET t == Strip(text)
        dots == {k \in 1 .. Len(t) : t[k] = "."}
    IN  IF dots = {}
        THEN IF Len(t) > 0 /\ AllDigits(t) THEN Rat(NatOf(t), 1) ELSE None
        ELSE LET k == CHOOSE x \in dots : TRUE
                 ip == SubSeq(t, 1, k - 1)
                 fp == SubSeq(t, k + 1, Len(t))
             IN  IF Cardinality(dots) = 1 /\ AllDigits(ip) /\ AllDigits(fp)
                    /\ Len(ip) + Len(fp) > 0
                 THEN Rat(NatOf(ip) * Pow10(Len(fp)) + NatOf(fp), Pow10(Len(fp)))
                 ELSE None

(* ------------------------------ events --------------------------------- *)

\* socketio.emit('progress', {...}) as received by the clients in `to`
Progress(message, detail, percentage, phase, to) ==
    [name |-> "progress", message |-> message, detail |-> detail,
     percentage |-> percentage, phase |-> phase,
     transcript |-> <<>>, error |-> <<>>, to |-> to]

TranscriptionComplete(transcript, to) ==
    [name |-> "transcription_complete", message |-> "", detail |-> "",
     percentage |-> None, phase |-> "",
     transcript |-> transcript, error |-> <<>>, to |-> to]

TranscriptionError(error, to) ==
    [name |-> "transcription_error", message |-> "", detail |-> "",
     percentage |-> None, phase |-> "",
     transcript |-> <<>>, error |-> error, to |-> to]

\* flask_socketio.emit inside an event handler: the reply goes to the sender
HandlerRecipients(client) == {client}

\* SocketIO.emit called on the server object without to/room: every
\* connected client of the namespace
ServerRecipients == connected

IsTerminal(e) == e.name \in {"transcription_complete", "transcription_error"}

(* --------------------------- ProgressHook ------------------------------ *)

Downloading(downloaded, total) ==
    [status |-> "downloading", has_total |-> TRUE, total_bytes |-> total,
     downloaded_bytes |-> downloaded, has_percent_str |-> FALSE, percent_str |-> <<>>]

DownloadingStr(text) ==
    [status |-> "downloading", has_total |-> FALSE, total_bytes |-> 0,
     downloaded_bytes |-> 0, has_percent_str |-> TRUE, percent_str |-> text]

DownloadingBare ==
    [status |-> "downloading", has_total |-> FALSE, total_bytes |-> 0,
     downloaded_bytes |-> 0, has_percent_str |-> FALSE, percent_str |-> <<>>]

Finished ==
    [status |-> "finished", has_total |-> FALSE, total_bytes |-> 0,
     downloaded_bytes |-> 0, has_percent_str |-> FALSE, percent_str |-> <<>>]

\* a relay that reports the share still to download
HookPercentRemaining(d) ==
    IF d.status # "downloading" THEN None
    ELSE IF d.has_total /\ d.total_bytes # 0
         THEN Rat((d.total_bytes - d.downloaded_bytes) * 100, d.total_bytes)
    ELSE IF d.has_percent_str /\ "%" \in {Strip(d.percent_str)[k] : k \in 1 .. Len(Strip(d.percent_str))}
         THEN ParseFloat(Remove(Strip(d.percent_str), "%"))
    ELSE None

\* the percentage ProgressHook.__call__ computes for d, None when it computes none
HookPercent(d) ==
    IF d.status # "downloading" THEN None
    ELSE IF d.has_total /\ d.total_bytes # 0
         THEN Rat(d.downloaded_bytes * 100, d.total_bytes)
    ELSE IF d.has_percent_str /\ "%" \in {Strip(d.percent_str)[k] : k \in 1 .. Len(Strip(d.percent_str))}
         THEN ParseFloat(Remove(Strip(d.percent_str), "%"))
    ELSE None

\* the events ProgressHook.__call__(d) emits
HookEmits(d, to) ==
    IF d.status = "downloading"
    THEN IF HookPercent(d) = None THEN <<>>
         ELSE <<Progress("Downloading audio...",
                         IF d.has_total /\ d.total_bytes # 0 THEN "Downloaded" ELSE "Progress",
                         HookPercent(d), "download", to)>>
    ELSE IF d.status = "finished"
    THEN <<Progress("Download complete!", "Preparing for transcription...",
                    Rat(100, 1), "download", to)>>
    ELSE <<>>

\* a relay that forgets its percentage when it cannot compute a new one
HookProgressReset(d, old) == IF HookPercent(d) = None THEN Rat(0, 1) ELSE HookPercent(d)

\* self.download_progress after ProgressHook.__call__(d)
HookProgress(d, old) == IF HookPercent(d) = None THEN old ELSE HookPercent(d)


(* ----------------------------- the inputs ------------------------------ *)

VideoA == <<"d","Q","w","4","w","9","W","g","X","c","Q">>
VideoB == <<"a","b","c","_","e","f","-","h","i","j","k">>

UrlWatchA == <<"y","t","?","v","=">> \o VideoA
UrlShortB == <<"y","t",".","b","e","/">> \o VideoB
UrlShortId == <<"/","a","b","c">>
UrlNoMarker == <<"x">> \o VideoA

\* the payload of a start_extraction message
Data(url) == [has_url |-> TRUE, url |-> url]
DataNoUrl == [has_url |-> FALSE, url |-> <<>>]

Messages == {DataNoUrl, Data(<<>>), Data(UrlShortId), Data(UrlNoMarker),
             Data(UrlWatchA), Data(UrlShortB)}

\* what shutil.disk_usage('/') does: it reports free bytes, or raises
Usage(free) == [ok |-> TRUE, free |-> free]
UsageFails == [ok |-> FALSE, free |-> 0]

DiskUsages == {UsageFails, Usage(0), Usage(1), Usage(MinFreeMb * MiB - 1),
               Usage(MinFreeMb * MiB)}

\* get_disk_usage(): free_mb
get_disk_usage(usage) == IF usage.ok THEN Rat(usage.free, MiB) ELSE None

SegHello == <<"H","e","l","l","o">>
SegWorld == <<" ","w","o","r","l","d">>

\* the recognition results: the segment texts, in order
Recordings ==
    {<<>>, << <<" ">> >>, <<SegHello, SegWorld>>, [k \in 1 .. MaxSeg |-> <<"a">>]}

Notifications ==
    {Downloading(1, 2), DownloadingStr(<<" ","5","0",".","5","%">>),
     DownloadingStr(<<"N","/","A","%">>)}

\* what the surroundings of a run with one request can feed the program:
\* the messages, the disk usage, the notifications of the download tool,
\* whether it writes the audio file, whether faster_whisper imports, whether
\* the model loads, whether the recognition succeeds and with what segments,
\* whether the segment generator raises, the external steps that can hang,
\* the names mkdtemp draws from
World1 == [messages |-> Messages, free |-> DiskUsages,
           notifications |-> Notifications, max_notif |-> MaxNotif,
           written |-> BOOLEAN, importable |-> BOOLEAN, model_ok |-> BOOLEAN,
           transcribe_ok |-> BOOLEAN, recordings |-> Recordings,
           segment_raises |-> BOOLEAN,
           hangs |-> {"download", "load_model", "transcribe", "segments"},
           dir_names |-> {"tmpA"}]

\* the surroundings of the runs with concurrent requests: a failure at the
\* disk check, the download, the file lookup and the recognition
World2 == [messages |-> {Data(UrlShortId), Data(UrlWatchA)},
           free |-> {Usage(MinFreeMb * MiB - 1), Usage(MinFreeMb * MiB)},
           notifications |-> {}, max_notif |-> 0,
           written |-> BOOLEAN, importable |-> {TRUE}, model_ok |-> {TRUE},
           transcribe_ok |-> BOOLEAN, recordings |-> {<<SegHello>>},
           segment_raises |-> {FALSE}, hangs |-> {"download"},
           dir_names |-> DirNames]

(* ------------------------------ the state ------------------------------ *)

\* connected: the clients with an open Socket.IO connection
\* tasks:     one record per start_extraction message handled, in order of
\*            arrival: the locals of its handler and background thread, and
\*            log, the events emitted for it
\* server:    what main() left running: the address and port it listens on,
\*            whether it started the browser thread and for which address
\* dirs:      the temporary directories that exist, each with the request
\*            that created it and whether the audio file is in it

\* data.get('url')
GetUrl(data) == IF data.has_url THEN data.url ELSE None

\* the truth value Python gives a float or None
Truthy(x) == x # None /\ x[1] # 0

\* video_id is the identifier the handler found in the URL, None if none;
\* notified is the notifications the download tool has sent to the relay;
\* fault is the step of the surroundings that failed in this request, "" if
\* none did; exc is the text of the exception the orchestrator raised
Task(client, url, video_id, pc, log) ==
    [client |-> client, url |-> url, video_id |-> video_id,
     pc |-> pc, thread |-> pc = "start",
     free_mb |-> None, temp_dir |-> NoDir, downloads |-> 0,
     hook |-> FALSE, download_progress |-> Rat(0, 1), calls |-> 0, finished |-> FALSE,
     notified |-> <<>>,
     segments |-> <<>>, transcript_parts |-> <<>>, transcript |-> <<>>,
     fault |-> "", exc |-> <<>>, log |-> log]

Requests == 1 .. Len(tasks)

\* os.environ as main() reads it: HOST and PORT, each set to a text or unset
Env(has_host, host, has_port, port) ==
    [has_host |-> has_host, HOST |-> host, has_port |-> has_port, PORT |-> port]

EnvUnset == Env(FALSE, "", FALSE, <<>>)

Loopback == "127.0.0.1"
AnyAddress == "0.0.0.0"

\* the process before main() has run; env is the environment it was started in
ServerOff ==
    [running |-> FALSE, host |-> "", port |-> 0, browser |-> FALSE,
     browser_host |-> "", browser_port |-> 0, exc |-> "", env |-> EnvUnset]

\* int(os.environ.get('PORT', 5000)): None when int() raises ValueError
PortOf(env) ==
    IF ~env.has_port THEN <<DefaultPort>>
    ELSE IF AllDigits(env.PORT) /\ Len(env.PORT) > 0 THEN <<NatOf(env.PORT)>>
    ELSE None

\* main(): the server it leaves running, and the browser thread it started
main(env) ==
    LET port == PortOf(env)
        host == IF env.has_host THEN env.HOST ELSE Loopback
        browser == host = Loopback
    IN  IF port = None THEN [ServerOff EXCEPT !.exc = "ValueError", !.env = env]
        ELSE [running |-> TRUE,
              host |-> IF host # Loopback THEN AnyAddress ELSE host,
              port |-> port[1], browser |-> browser,
              browser_host |-> IF browser THEN host ELSE "",
              browser_port |-> IF browser THEN port[1] ELSE 0, exc |-> "",
              env |-> env]

\* the process is started with this environment
Main(env) ==
    /\ ~server.running /\ server.exc = ""
    /\ server' = main(env)
    /\ UNCHANGED <<connected, tasks, dirs>>

Init ==
    /\ connected = {}
    /\ tasks = <<>>
    /\ dirs = [n \in {} |-> [owner |-> 0, audio |-> FALSE]]
    /\ server = main(EnvUnset)

\* a client opens its Socket.IO connection
Connect(c) ==
    /\ server.running
    /\ c \notin connected
    /\ connected' = connected \cup {c}
    /\ UNCHANGED <<tasks, dirs, server>>

\* handle_extraction joining its thread: the next message is handled only
\* when the background tasks before it have ended
handle_extraction_Join(c, data) ==
    LET url == GetUrl(data)
        video_id == extract_video_id(url)
    IN
    /\ c \in connected
    /\ \A r \in 1 .. Len(tasks) : tasks[r].pc = "done"
    /\ tasks' = Append(tasks,
         IF url = <<>>
         THEN Task(c, url, None, "done",
                   <<TranscriptionError(<<"No URL provided">>, HandlerRecipients(c))>>)
         ELSE IF video_id = None
         THEN Task(c, url, None, "done",
                   <<TranscriptionError(<<"Invalid YouTube URL">>, HandlerRecipients(c))>>)
         ELSE Task(c, url, video_id, "start", <<>>))
    /\ UNCHANGED <<connected, dirs, server>>

\* handle_extraction without the return after the error reply: the thread
\* is started for a missing or invalid URL too
handle_extraction_NoReturn(c, data) ==
    LET url == GetUrl(data)
        video_id == extract_video_id(url)
    IN
    /\ c \in connected
    /\ tasks' = Append(tasks,
         IF url = <<>>
         THEN Task(c, url, None, "start",
                   <<TranscriptionError(<<"No URL provided">>, HandlerRecipients(c))>>)
         ELSE IF video_id = None
         THEN Task(c, url, None, "start",
                   <<TranscriptionError(<<"Invalid YouTube URL">>, HandlerRecipients(c))>>)
         ELSE Task(c, url, video_id, "start", <<>>))
    /\ UNCHANGED <<connected, dirs, server>>

\* handle_extraction(data), the message coming from client c
handle_extraction(c, data) ==
    LET url == GetUrl(data)
        video_id == extract_video_id(url)
    IN
    /\ c \in connected
    /\ tasks' = Append(tasks,
         IF url = <<>>
         THEN Task(c, url, None, "done",
                   <<TranscriptionError(<<"No URL provided">>, HandlerRecipients(c))>>)
         ELSE IF video_id = None
         THEN Task(c, url, None, "done",
                   <<TranscriptionError(<<"Invalid YouTube URL">>, HandlerRecipients(c))>>)
         ELSE Task(c, url, video_id, "start", <<>>))
    /\ UNCHANGED <<connected, dirs, server>>

\* tempfile.TemporaryDirectory(): the names mkdtemp can give the new directory
MakeTempDir(names) == names \ DOMAIN dirs

\* a clean-up that empties one scratch directory all requests share
CleanupAll(t) == [n \in {} |-> [owner |-> 0, audio |-> FALSE]]

\* TemporaryDirectory.__exit__: the directory of the task goes, with its content
Cleanup(t) == [n \in (DOMAIN dirs) \ {t.temp_dir} |-> dirs[n]]

\* the directory made with mkdtemp and removed only on the way to return
RaiseNoCleanup(r, t, fault, exc) ==
    /\ tasks' = [tasks EXCEPT ![r] = [t EXCEPT !.pc = "raised", !.fault = fault,
                                               !.exc = exc]]
    /\ dirs' = dirs

\* an exception leaves download_and_transcribe_with_progress, through the
\* except clauses that wrap its text and through the with block
Raise(r, t, fault, exc) ==
    /\ tasks' = [tasks EXCEPT ![r] = [t EXCEPT !.pc = "raised", !.fault = fault,
                                               !.exc = exc]]
    /\ dirs' = Cleanup(t)

\* the disk check failing closed: an unknown amount of free space is refused
DiskCheckFailsOnUnknown(free_mb) ==
    free_mb = None \/ RatLt(free_mb, Rat(MinFreeMb, 1))

\* if free_mb and free_mb < 100
DiskCheckFails(free_mb) ==
    Truthy(free_mb) /\ RatLt(free_mb, Rat(MinFreeMb, 1))

\* download_and_transcribe_with_progress up to the call of ydl.download
Begin(r, usage, names) ==
    LET t == tasks[r]
        free_mb == get_disk_usage(usage)
        log == Append(t.log, Progress("Initializing download...", "Setting up yt-dlp",
                                      Rat(0, 1), "download", ServerRecipients))
    IN
    /\ t.pc = "start"
    /\ IF DiskCheckFails(free_mb)
       THEN Raise(r, [t EXCEPT !.log = log, !.free_mb = free_mb], "disk",
                  <<"Insufficient disk space">>)
       ELSE \E n \in MakeTempDir(names) :
            /\ dirs' = [m \in DOMAIN dirs \cup {n} |->
                          IF m = n THEN [owner |-> r, audio |-> FALSE] ELSE dirs[m]]
            /\ tasks' = [tasks EXCEPT ![r] = [t EXCEPT !.pc = "download", !.log = log,
                            !.free_mb = free_mb, !.temp_dir = n, !.hook = TRUE,
                            !.downloads = t.downloads + 1]]
    /\ UNCHANGED <<connected, server>>

\* the download tool calls progress_hook(d)
HookCall(r, d, max_notif) ==
    LET t == tasks[r] IN
    /\ t.pc = "download" /\ ~t.finished
    /\ d.status = "downloading" => t.calls < max_notif
    /\ tasks' = [tasks EXCEPT ![r] = [t EXCEPT
                    !.log = t.log \o HookEmits(d, ServerRecipients),
                    !.download_progress = HookProgress(d, t.download_progress),
                    !.calls = t.calls + 1,
                    !.notified = Append(t.notified, d),
                    !.finished = (d.status = "finished")]]
    /\ UNCHANGED <<connected, dirs, server>>

\* ydl.download raises
DownloadFails(r) ==
    LET t == tasks[r] IN
    /\ t.pc = "download"
    /\ Raise(r, t, "download", <<"Processing failed", "download error">>)
    /\ UNCHANGED <<connected, server>>

\* the transcription-phase start event emitted before the download-complete one
DownloadedEmitsSwapped(to) ==
    <<Progress("Starting transcription...", "Loading Whisper model", Rat(0, 1),
               "transcribe", to),
      Progress("Download complete!", "Audio file", Rat(100, 1), "download", to)>>

\* the events between the return of ydl.download and the import
DownloadedEmits(to) ==
    <<Progress("Download complete!", "Audio file", Rat(100, 1), "download", to),
      Progress("Starting transcription...", "Loading Whisper model", Rat(0, 1),
               "transcribe", to)>>

\* ydl.download returns, having written (or not) the audio file; then the
\* lookup of the file and the import of faster_whisper
DownloadReturns(r, written, importable) ==
    LET t == tasks[r]
        log1 == t.log \o DownloadedEmits(ServerRecipients)
        log2 == Append(log1,
              Progress("Loading Whisper model...", "Initializing base model", Rat(10, 1),
                       "transcribe", ServerRecipients))
    IN
    /\ t.pc = "download" /\ t.finished
    /\ IF t.temp_dir \notin DOMAIN dirs
       THEN Raise(r, t, "", <<"Processing failed", "No such file or directory">>)
       ELSE IF ~written
       THEN Raise(r, t, "nofile",
                  <<"Processing failed", "No audio file found after download">>)
       ELSE IF ~importable
       THEN Raise(r, [t EXCEPT !.log = log1], "import",
                  <<"Processing failed", "faster-whisper not installed">>)
       ELSE /\ tasks' = [tasks EXCEPT ![r] = [t EXCEPT !.pc = "load_model", !.log = log2]]
            /\ dirs' = [dirs EXCEPT ![t.temp_dir].audio = TRUE]
    /\ UNCHANGED <<connected, server>>

\* WhisperModel("base", ...) returns or raises
LoadModel(r, ok) ==
    LET t == tasks[r] IN
    /\ t.pc = "load_model"
    /\ IF ok
       THEN /\ tasks' = [tasks EXCEPT ![r] = [t EXCEPT !.pc = "transcribe",
                 !.log = Append(t.log,
                     Progress("Transcribing audio...", "Processing speech recognition",
                              Rat(30, 1), "transcribe", ServerRecipients))]]
            /\ UNCHANGED dirs
       ELSE Raise(r, t, "model",
                  <<"Processing failed", "Transcription failed", "model error">>)
    /\ UNCHANGED <<connected, server>>

\* model.transcribe(audio_file) returns the lazily produced segments, or raises
Transcribe(r, ok, recording) ==
    LET t == tasks[r] IN
    /\ t.pc = "transcribe"
    /\ IF t.temp_dir \notin DOMAIN dirs
       THEN Raise(r, t, "",
                  <<"Processing failed", "Transcription failed", "No such file or directory">>)
       ELSE IF ok
       THEN /\ tasks' = [tasks EXCEPT ![r] = [t EXCEPT !.pc = "segments",
                 !.segments = recording, !.transcript_parts = <<>>,
                 !.log = Append(t.log,
                     Progress("Processing results...", "Detected language",
                              Rat(80, 1), "transcribe", ServerRecipients))]]
            /\ UNCHANGED dirs
       ELSE Raise(r, t, "transcribe",
                  <<"Processing failed", "Transcription failed", "transcribe error">>)
    /\ UNCHANGED <<connected, server>>

Max(a, b) == IF a >= b THEN a ELSE b

\* a loop that reports after every tenth segment instead of before
SegmentEmitsOffByOne(i, parts, to) ==
    IF (i + 1) % SampleEvery = 0
    THEN <<Progress("Assembling transcript...", "Processing segment",
                    Rat(80 * Max(1, Len(parts)) + i * 15, Max(1, Len(parts))),
                    "transcribe", to)>>
    ELSE <<>>

\* the event of the loop body for the segment of index i, if it emits one
SegmentEmits(i, parts, to) ==
    IF i % SampleEvery = 0
    THEN <<Progress("Assembling transcript...", "Processing segment",
                    Rat(80 * Max(1, Len(parts)) + i * 15, Max(1, Len(parts))),
                    "transcribe", to)>>
    ELSE <<>>

\* a loop that stops at the failure and returns what it has accumulated
SegmentFailsPartial(r, t) ==
    /\ tasks' = [tasks EXCEPT ![r] = [t EXCEPT !.pc = "returned", !.fault = "segment",
                    !.transcript = Strip(Join(t.transcript_parts)),
                    !.log = Append(t.log,
                        Progress("Transcription complete!", "Generated characters",
                                 Rat(100, 1), "transcribe", connected))]]
    /\ dirs' = [n \in (DOMAIN dirs) \ {t.temp_dir} |-> dirs[n]]

\* the generator of segments raises while the loop iterates it
SegmentFails(r, t) ==
    Raise(r, t, "segment", <<"Processing failed", "Transcription failed", "segment error">>)

\* one step of `for i, segment in enumerate(segments)`: the generator yields
\* the next segment, raises, or is exhausted; when exhausted, the join, the
\* last progress event and the return
NextSegment(r, raises) ==
    LET t == tasks[r]
        i == Len(t.transcript_parts)
        parts == Append(t.transcript_parts, Head(t.segments))
        transcript == Strip(Join(t.transcript_parts))
    IN
    /\ t.pc = "segments"
    /\ IF raises
       THEN SegmentFails(r, t)
       ELSE IF t.segments # <<>>
       THEN /\ tasks' = [tasks EXCEPT ![r] = [t EXCEPT
                 !.segments = Tail(t.segments), !.transcript_parts = parts,
                 !.log = t.log \o SegmentEmits(i, parts, ServerRecipients)]]
            /\ UNCHANGED dirs
       ELSE /\ tasks' = [tasks EXCEPT ![r] = [t EXCEPT !.pc = "returned",
                 !.transcript = transcript,
                 !.log = Append(t.log,
                     Progress("Transcription complete!", "Generated characters",
                              Rat(100, 1), "transcribe", ServerRecipients))]]
            /\ dirs' = Cleanup(t)
    /\ UNCHANGED <<connected, server>>

\* an external step (the download, the model load, the recognition, the
\* production of a segment) never returns
Hang(r, steps) ==
    /\ tasks[r].pc \in {"download", "load_model", "transcribe", "segments"} \cap steps
    /\ tasks' = [tasks EXCEPT ![r].pc = "hung"]
    /\ UNCHANGED <<connected, dirs, server>>

\* extraction_task without the test of the transcript
TerminalEmitsNoCheck(t, to) ==
    IF t.pc = "raised" THEN <<TranscriptionError(t.exc, to)>>
    ELSE <<TranscriptionComplete(t.transcript, to)>>

\* extraction_task without the return after 'No transcript generated'
TerminalEmitsNoReturn(t, to) ==
    IF t.pc = "raised" THEN <<TranscriptionError(t.exc, to)>>
    ELSE IF t.transcript = <<>>
    THEN <<TranscriptionError(<<"No transcript generated">>, to),
           TranscriptionComplete(t.transcript, to)>>
    ELSE <<TranscriptionComplete(t.transcript, to)>>

\* what extraction_task emits once download_and_transcribe_with_progress
\* has returned or raised
TerminalEmits(t, to) ==
    IF t.pc = "raised" THEN <<TranscriptionError(t.exc, to)>>
    ELSE IF t.transcript = <<>>
    THEN <<TranscriptionError(<<"No transcript generated">>, to)>>
    ELSE <<TranscriptionComplete(t.transcript, to)>>

\* extraction_task after download_and_transcribe_with_progress has ended
TaskEnd(r) ==
    LET t == tasks[r] IN
    /\ t.pc \in {"returned", "raised"}
    /\ tasks' = [tasks EXCEPT ![r] = [t EXCEPT !.pc = "done",
                    !.log = t.log \o TerminalEmits(t, ServerRecipients)]]
    /\ UNCHANGED <<connected, dirs, server>>

\* the steps of the background thread of request r
Step(r, W) ==
    \/ \E usage \in W.free : Begin(r, usage, W.dir_names)
    \/ \E d \in W.notifications \cup {Finished} : HookCall(r, d, W.max_notif)
    \/ DownloadFails(r)
    \/ \E written \in W.written, importable \in W.importable :
          DownloadReturns(r, written, importable)
    \/ \E ok \in W.model_ok : LoadModel(r, ok)
    \/ \E ok \in W.transcribe_ok, recording \in W.recordings : Transcribe(r, ok, recording)
    \/ \E raises \in W.segment_raises : NextSegment(r, raises)
    \/ Hang(r, W.hangs)
    \/ TaskEnd(r)

\* a start_extraction message arrives
Receive(limit, W) ==
    \E c \in Clients, data \in W.messages : Len(tasks) < limit /\ handle_extraction(c, data)

\* every client has opened its connection, no message has come yet
InitConnected ==
    /\ connected = Clients
    /\ tasks = <<>>
    /\ dirs = [n \in {} |-> [owner |-> 0, audio |-> FALSE]]
    /\ server = main(EnvUnset)

\* concurrent requests
Next ==
    \/ Receive(MaxReq, World2)
    \/ \E r \in Requests : Step(r, World2)

Spec == InitConnected /\ [][Next]_vars

\* one request, every input
NextOne ==
    \/ \E c \in Clients : Connect(c)
    \/ Receive(1, World1)
    \/ \E r \in Requests : Step(r, World1)

SpecOne == Init /\ [][NextOne]_vars


(* ----------------- the relay, on every notification -------------------- *)

\* the percent strings of the download tool's notifications: numbers with
\* and without the sign '%', padded, over 100, and text that is no number.
\* They stay within what ParseFloat reads as float() does: digits, one '.',
\* blanks around, and text float() refuses
PercentTexts ==
    {<<" ","5","0",".","5","%">>, <<"1","0","0","%">>, <<"1","5","0","%">>,
     <<"5","0">>, <<"N","/","A","%">>, <<"%">>, <<" ","7","%"," ">>}

\* every 'downloading' notification the download tool can send
HookNotifications ==
    {Downloading(downloaded, total) : downloaded \in 0 .. MaxBytes, total \in 0 .. MaxBytes}
        \cup {DownloadingStr(text) : text \in PercentTexts}
        \cup {DownloadingBare}

\* one request whose orchestrator has reached ydl.download: the event of
\* the initialisation is emitted, the directory made, the relay registered
InitHook ==
    /\ connected = Clients
    /\ server = main(EnvUnset)
    /\ \E c \in Clients, n \in {"tmpA"}, usage \in {Usage(MinFreeMb * MiB)} :
        /\ tasks = << [Task(c, UrlWatchA, extract_video_id(UrlWatchA), "start", <<>>) EXCEPT
                         !.pc = "download",
                         !.log = <<Progress("Initializing download...", "Setting up yt-dlp",
                                            Rat(0, 1), "download", ServerRecipients)>>,
                         !.free_mb = get_disk_usage(usage), !.temp_dir = n,
                         !.hook = TRUE, !.downloads = 1] >>
        /\ dirs = [m \in {n} |-> [owner |-> 1, audio |-> FALSE]]

\* the download tool notifies the relay, and ends with 'finished'
NextHook ==
    \E d \in HookNotifications \cup {Finished} : HookCall(1, d, MaxNotif)

SpecHook == InitHook /\ [][NextHook]_vars

(* ----------------- the validator, on every URL ------------------------- *)

\* ten characters of an identifier: one too few
ShortId == <<"A","B","C","D","E","F","G","H","I","J">>

\* the pieces URLs are made of: an identifier after '/', after 'v=', ten
\* characters after 'v=', a separator that is no identifier character
UrlPieces ==
    {<<"/">> \o VideoB, <<"v","=">> \o VideoA, <<"v","=">> \o ShortId,
     <<"/">> \o ShortId, <<"&">>}

RECURSIVE UrlsOf(_)
\* the URLs made of at most n pieces
UrlsOf(n) ==
    IF n = 0 THEN {<<>>}
    ELSE UrlsOf(n - 1) \cup {u \o q : u \in UrlsOf(n - 1), q \in UrlPieces}

WorldUrl == [messages |-> {Data(u) : u \in UrlsOf(MaxPieces)}]

\* one start_extraction message, with any of the URLs
NextUrl == Receive(1, WorldUrl)

SpecUrl == InitConnected /\ [][NextUrl]_vars

(* ----------------------- the start of the process ---------------------- *)

Hosts == {"127.0.0.1", "localhost", "::1", "0.0.0.0", "192.168.1.5", "example.com", ""}

PortTexts == {<<"8","0">>, <<"8","0","8","0">>, <<"0","5","0","0","0">>, <<"h","t","t","p">>, <<>>}

Environments ==
    {Env(TRUE, host, TRUE, port) : host \in Hosts, port \in PortTexts}
        \cup {Env(TRUE, host, FALSE, <<>>) : host \in Hosts}
        \cup {Env(FALSE, "", TRUE, port) : port \in PortTexts}
        \cup {EnvUnset}

InitBoot ==
    /\ connected = {}
    /\ tasks = <<>>
    /\ dirs = [n \in {} |-> [owner |-> 0, audio |-> FALSE]]
    /\ server = ServerOff

\* the process starts in any environment, then clients connect
NextBoot ==
    \/ \E env \in Environments : Main(env)
    \/ \E c \in Clients : Connect(c)

SpecBoot == InitBoot /\ [][NextBoot]_vars


(* ------------------- the loop over the segments ------------------------ *)

\* recognition results of every length up to the third sampled segment
LongRecordings == {[k \in 1 .. n |-> <<"a">>] : n \in 0 .. (2 * MaxSeg)}

\* the surroundings of a run that reaches the loop over the segments
WorldSeg == [messages |-> {Data(UrlWatchA)}, free |-> {Usage(MinFreeMb * MiB)},
             notifications |-> {}, max_notif |-> 0,
             written |-> {TRUE}, importable |-> {TRUE}, model_ok |-> {TRUE},
             transcribe_ok |-> {TRUE}, recordings |-> LongRecordings,
             segment_raises |-> BOOLEAN, hangs |-> {"segments"},
             dir_names |-> {"tmpA"}]

NextSeg ==
    \/ Receive(1, WorldSeg)
    \/ \E r \in Requests : Step(r, WorldSeg)

SpecSeg == InitConnected /\ [][NextSeg]_vars


(* ---------------------------- the properties --------------------------- *)

TerminalAt(log) == {k \in 1 .. Len(log) : IsTerminal(log[k])}

\* C1: a request that has ended has exactly one terminal event
\* (transcription_complete or transcription_error), which is the last event
\* of the request; a request that has not ended has none yet.
C1_ExactlyOneTerminal ==
    \A r \in Requests :
        LET log == tasks[r].log IN
        IF tasks[r].pc = "done" THEN TerminalAt(log) = {Len(log)}
        ELSE TerminalAt(log) = {}

C1_Witness ==
    \E r \in Requests :
        /\ tasks[r].pc = "done"
        /\ tasks[r].log[Len(tasks[r].log)].name = "transcription_complete"

\* C2: every event of the background task of a request is delivered to the
\* client that sent the request and to no other client.
C2_NoCrossTalk ==
    \A r \in Requests :
        tasks[r].thread =>
            \A k \in 1 .. Len(tasks[r].log) : tasks[r].log[k].to \subseteq {tasks[r].client}

\* C3: a message with no URL, or with a URL extract_video_id finds no
\* identifier in, gets one transcription_error, sent by the handler to the
\* sender, and nothing else: no thread, no orchestrator, no download, no
\* progress event.
C3_InvalidRequestNoThread ==
    \A r \in Requests :
        LET t == tasks[r] IN
        (t.url = <<>> \/ extract_video_id(t.url) = None) =>
            /\ t.log = <<TranscriptionError(
                           IF t.url = <<>> THEN <<"No URL provided">>
                           ELSE <<"Invalid YouTube URL">>, {t.client})>>
            /\ ~t.thread
            /\ t.pc = "done"
            /\ t.downloads = 0
            /\ t.temp_dir = NoDir

C3_Witness ==
    \E r \in Requests :
        /\ tasks[r].url # <<>>
        /\ extract_video_id(tasks[r].url) = None
        /\ tasks[r].pc = "done"

\* C4: whenever the free storage read by the disk check is below 100 MB
\* (0 included), the orchestrator raises the insufficient-disk-space error
\* and neither creates the temporary directory nor invokes the download tool.
C4_LowDiskNeverDownloads ==
    \A r \in Requests :
        LET t == tasks[r] IN
        (t.free_mb # None /\ RatLt(t.free_mb, Rat(MinFreeMb, 1))) =>
            /\ t.fault = "disk"
            /\ t.exc = <<"Insufficient disk space">>
            /\ t.temp_dir = NoDir
            /\ t.downloads = 0


\* the place of an event in the order of section 4.3
Stage(e) ==
    CASE IsTerminal(e) -> 11
      [] e.message = "Initializing download..." -> 1
      [] e.message = "Downloading audio..." -> 2
      [] e.message = "Download complete!" /\ e.detail = "Preparing for transcription..." -> 3
      [] e.message = "Download complete!" /\ e.detail = "Audio file" -> 4
      [] e.message = "Starting transcription..." -> 5
      [] e.message = "Loading Whisper model..." -> 6
      [] e.message = "Transcribing audio..." -> 7
      [] e.message = "Processing results..." -> 8
      [] e.message = "Assembling transcript..." -> 9
      [] e.message = "Transcription complete!" -> 10
      [] OTHER -> 0

Stages(log) == {Stage(log[k]) : k \in 1 .. Len(log)}

\* the phase and the percentage the order gives the event of a stage
StageShape(e) ==
    CASE Stage(e) = 1 -> e.phase = "download" /\ e.percentage = Rat(0, 1)
      [] Stage(e) = 2 -> e.phase = "download"
      [] Stage(e) \in {3, 4} -> e.phase = "download" /\ e.percentage = Rat(100, 1)
      [] Stage(e) = 5 -> e.phase = "transcribe" /\ e.percentage = Rat(0, 1)
      [] Stage(e) = 6 -> e.phase = "transcribe" /\ e.percentage = Rat(10, 1)
      [] Stage(e) = 7 -> e.phase = "transcribe" /\ e.percentage = Rat(30, 1)
      [] Stage(e) = 8 -> e.phase = "transcribe" /\ e.percentage = Rat(80, 1)
      [] Stage(e) = 9 -> e.phase = "transcribe"
      [] Stage(e) = 10 -> e.phase = "transcribe" /\ e.percentage = Rat(100, 1)
      [] Stage(e) = 11 -> TRUE
      [] OTHER -> FALSE

Succeeded(t) ==
    t.pc = "done" /\ t.log[Len(t.log)].name = "transcription_complete"

\* C5: the events of a request with a background task come in the order
\* initializing (0), relay progress events, relay finished (100), download
\* complete with file size (100), transcribe 0, 10, 30, language (80), sampled
\* segment events, transcription complete (100), terminal event; only the
\* relay progress events and the segment events repeat; no download-phase
\* event follows a transcribe-phase event; a successful request has every
\* one of these stages.
C5_EventOrder ==
    \A r \in Requests :
        LET t == tasks[r]
            log == t.log
        IN  t.thread =>
            /\ \A k \in 1 .. Len(log) : StageShape(log[k])
            /\ \A k \in 1 .. Len(log) - 1 :
                 /\ Stage(log[k]) <= Stage(log[k + 1])
                 /\ Stage(log[k]) = Stage(log[k + 1]) => Stage(log[k]) \in {2, 9}
                 /\ log[k].phase = "transcribe" => log[k + 1].phase \in {"transcribe", ""}
            /\ Succeeded(t) => {1, 3, 4, 5, 6, 7, 8, 9, 10, 11} \subseteq Stages(log)

C5_Witness ==
    \E r \in Requests :
        /\ Succeeded(tasks[r])
        /\ Cardinality({k \in 1 .. Len(tasks[r].log) : Stage(tasks[r].log[k]) = 9}) >= 2
        /\ 2 \in Stages(tasks[r].log)

\* the orchestrator of the request has returned (not raised) and the task has ended
ReturnedAndEnded(t) == t.thread /\ t.pc = "done" /\ t.exc = <<>>

\* C6: a transcription_complete event carries a non-empty transcript; when
\* the orchestrator returns after zero segments, or after segments whose
\* joined and trimmed text is empty, the terminal event is
\* transcription_error 'No transcript generated' and there is no
\* transcription_complete event.
C6_CompleteOnlyNonEmpty ==
    \A r \in Requests :
        LET t == tasks[r]
            log == t.log
        IN  /\ \A k \in 1 .. Len(log) :
                 log[k].name = "transcription_complete" => log[k].transcript # <<>>
            /\ (ReturnedAndEnded(t) /\ Strip(Join(t.transcript_parts)) = <<>>) =>
                 /\ log[Len(log)].name = "transcription_error"
                 /\ log[Len(log)].error = <<"No transcript generated">>
                 /\ \A k \in 1 .. Len(log) : log[k].name # "transcription_complete"

C6_Witness ==
    \E r \in Requests :
        /\ ReturnedAndEnded(tasks[r])
        /\ tasks[r].transcript_parts = <<>>
        /\ tasks[r].segments = <<>>

\* C7: when the disk check, the download, the file lookup, the import, the
\* model load, the recognition or the iteration of the segments fails, the
\* orchestrator raises: it returns no transcript, no event of the request
\* carries transcript text, there is no transcription_complete event, and the
\* terminal event is the transcription_error with the text of the exception.
C7_AllOrNothing ==
    \A r \in Requests :
        LET t == tasks[r]
            log == t.log
        IN  t.fault # "" =>
            /\ t.pc \in {"raised", "done"}
            /\ t.exc # <<>>
            /\ t.transcript = <<>>
            /\ \A k \in 1 .. Len(log) :
                 log[k].name # "transcription_complete" /\ log[k].transcript = <<>>
            /\ t.pc = "done" =>
                 /\ log[Len(log)].name = "transcription_error"
                 /\ log[Len(log)].error = t.exc

C7_Witness ==
    \E r \in Requests :
        /\ tasks[r].fault = "segment"
        /\ Len(tasks[r].transcript_parts) >= 1
        /\ tasks[r].pc = "done"

\* the invocation of the orchestrator has made its directory and has not ended
InWith(t) == t.pc \in {"download", "load_model", "transcribe", "segments", "hung"}

\* C8: every temporary directory that exists belongs to one invocation of
\* the orchestrator that has not ended, and every such invocation has a
\* directory of its own: once an invocation has returned or raised, and so
\* when the terminal event is emitted, its directory and audio file are gone.
C8_TempDirScoped ==
    /\ \A n \in DOMAIN dirs :
         /\ dirs[n].owner \in Requests
         /\ tasks[dirs[n].owner].temp_dir = n
         /\ InWith(tasks[dirs[n].owner])
    /\ \A r \in Requests :
         InWith(tasks[r]) =>
            /\ tasks[r].temp_dir \in DOMAIN dirs
            /\ dirs[tasks[r].temp_dir].owner = r

C8_Witness ==
    \E r1, r2 \in Requests :
        /\ tasks[r1].pc = "done" /\ tasks[r1].fault = "transcribe"
        /\ tasks[r2].pc = "done" /\ Succeeded(tasks[r2])
        /\ DOMAIN dirs = {}

\* the handler found a video identifier in the URL of the request
ValidUrl(t) == t.url # <<>> /\ t.video_id # None

\* C9: whatever the background tasks are doing, running or hung, the
\* gateway can handle a further start_extraction message, and every message
\* with a valid URL has a background task of its own.
C9_GatewayNeverWaits ==
    /\ \A r \in Requests : ValidUrl(tasks[r]) => tasks[r].thread
    /\ Len(tasks) < MaxReq =>
         \A c \in connected, data \in World2.messages : ENABLED handle_extraction(c, data)

C9_Witness ==
    /\ Len(tasks) >= 2
    /\ tasks[1].pc = "hung"
    /\ tasks[2].pc = "segments"

\* the request went through the whole event sequence
FullSequence(t) ==
    /\ {1, 3, 4, 5, 6, 7, 8, 10, 11} \subseteq Stages(t.log)
    /\ \/ t.log[Len(t.log)].name = "transcription_complete"
       \/ t.log[Len(t.log)].error = <<"No transcript generated">>

\* the step fails request r
FailsIn(r) == tasks[r].fault = "" /\ tasks'[r].fault # ""

\* the step leaves request r2 as it is: its task and its directory
Untouched(r2) ==
    /\ tasks'[r2] = tasks[r2]
    /\ \A n \in DOMAIN dirs :
         dirs[n].owner = r2 => n \in DOMAIN dirs' /\ dirs'[n] = dirs[n]

\* C10: a step in which one request fails changes nothing of any other
\* request, and a request in which no step failed ends with its whole event
\* sequence and its own terminal event, whatever happened in the others.
C10_FailureIsolated ==
    /\ [](\A r \in Requests :
            (tasks[r].thread /\ tasks[r].pc = "done" /\ tasks[r].fault = "") =>
                FullSequence(tasks[r]))
    /\ [][\A r \in Requests :
            FailsIn(r) => \A r2 \in Requests \ {r} : Untouched(r2)]_vars

C10_Witness ==
    \E r1, r2 \in Requests :
        /\ tasks[r1].pc = "done" /\ tasks[r1].fault = "download"
        /\ Succeeded(tasks[r2])
        /\ tasks[r2].fault = ""

\* the progress events emitted for task t
ProgressEvents(t) == {k \in 1 .. Len(t.log) : t.log[k].name = "progress"}

\* C11: every progress event, of the relay and of the orchestrator, carries
\* a percentage between 0 and 100 and the phase 'download' or 'transcribe',
\* whatever byte counts or percent string the download tool reports and
\* however many segments there are.
C11_PercentageInRange ==
    \A r \in Requests : \A k \in ProgressEvents(tasks[r]) :
        /\ RatLeq(Rat(0, 1), tasks[r].log[k].percentage)
        /\ RatLeq(tasks[r].log[k].percentage, Rat(100, 1))
        /\ tasks[r].log[k].phase \in {"download", "transcribe"}

\* C12: the segments 'Hello' and ' world' give the transcript 'Hello world',
\* with one space, in the transcription_complete event.
C12_HelloWorld ==
    \A r \in Requests :
        LET t == tasks[r] IN
        (t.transcript_parts = <<SegHello, SegWorld>> /\ t.pc = "done" /\ t.fault = "") =>
            /\ t.log[Len(t.log)].name = "transcription_complete"
            /\ t.log[Len(t.log)].transcript = <<"H","e","l","l","o"," ","w","o","r","l","d">>

\* 'v=' at position p of url with IdLen identifier characters right after it
VEqAt(url, p) ==
    /\ p + 1 + IdLen <= Len(url)
    /\ url[p] = "v" /\ url[p + 1] = "="
    /\ \A k \in 1 .. IdLen : url[p + 1 + k] \in IdChars

\* '/' at position p of url with IdLen identifier characters right after it
SlashAt(url, p) ==
    /\ p + IdLen <= Len(url)
    /\ url[p] = "/"
    /\ \A k \in 1 .. IdLen : url[p + k] \in IdChars

MatchAt(url, p) == VEqAt(url, p) \/ SlashAt(url, p)

\* the identifier characters of the match that begins at p
TokenAt(url, p) ==
    IF url[p] = "/" THEN SubSeq(url, p + 1, p + IdLen)
    ELSE SubSeq(url, p + 2, p + 1 + IdLen)

\* C13 as stated: a URL that contains 'v=' followed by eleven identifier
\* characters gives those eleven characters, whatever comes before or after.
C13_VEqualsWins ==
    \A r \in Requests :
        LET url == tasks[r].url IN
        (\E p \in 1 .. Len(url) : VEqAt(url, p)) =>
            \E p \in 1 .. Len(url) :
                VEqAt(url, p) /\ tasks[r].video_id = TokenAt(url, p)

\* C13, amended: the validator gives the eleven characters after 'v=' when
\* no '/' or 'v=' followed by eleven identifier characters begins earlier in
\* the URL; when one does, it gives the characters of the leftmost of them.
C13_FirstMatchWins ==
    \A r \in Requests :
        LET url == tasks[r].url IN
        \A p \in 1 .. Len(url) :
            VEqAt(url, p) =>
                /\ (\A q \in 1 .. (p - 1) : ~MatchAt(url, q)) =>
                       tasks[r].video_id = SubSeq(url, p + 2, p + 1 + IdLen)
                /\ \A q \in 1 .. p :
                       (MatchAt(url, q) /\ \A q2 \in 1 .. (q - 1) : ~MatchAt(url, q2)) =>
                           tasks[r].video_id = TokenAt(url, q)

C13_Witness ==
    \E r \in Requests :
        LET url == tasks[r].url IN
        \E p \in 1 .. Len(url), q \in 1 .. Len(url) :
            /\ q < p /\ SlashAt(url, q) /\ VEqAt(url, p)
            /\ \A q2 \in 1 .. (q - 1) : ~MatchAt(url, q2)
            /\ tasks[r].video_id = TokenAt(url, q)
            /\ tasks[r].video_id # TokenAt(url, p)

\* the addresses of the local machine
LoopbackHosts == {"127.0.0.1", "localhost", "::1"}

\* the HOST the process was configured with
ConfiguredHost == IF server.env.has_host THEN server.env.HOST ELSE Loopback

\* C14: the browser is launched if and only if the configured HOST is a
\* loopback address: for 127.0.0.1, localhost and ::1 the browser thread is
\* started and the server listens on that host; for any other host no
\* browser is launched.
C14_BrowserIffLoopback ==
    server.running =>
        IF ConfiguredHost \in LoopbackHosts
        THEN server.browser /\ server.host = ConfiguredHost
        ELSE ~server.browser

\* the percentages of the events ProgressHook emitted for task t, in order
HookPercentages(t) ==
    LET FromHook(e) == Stage(e) \in {2, 3}
        events == SelectSeq(t.log, FromHook)
    IN  [k \in 1 .. Len(events) |-> events[k].percentage]

\* the percentages of the 'downloading' notifications among them
DownloadingPercentages(t) ==
    LET IsDownloading(e) == Stage(e) = 2
        events == SelectSeq(t.log, IsDownloading)
    IN  [k \in 1 .. Len(events) |-> events[k].percentage]

NonDecreasing(ps) == \A k \in 1 .. (Len(ps) - 1) : RatLeq(ps[k], ps[k + 1])

\* 'downloading' notifications with byte counts, then one 'finished'
BytesThenFinished(ds) ==
    /\ Len(ds) >= 1
    /\ ds[Len(ds)].status = "finished"
    /\ \A k \in 1 .. (Len(ds) - 1) : ds[k].status = "downloading" /\ ds[k].has_total

\* the byte counts of a download that advances: one positive total, and
\* downloaded counts that never decrease
Advancing(ds) ==
    /\ \A k \in 1 .. (Len(ds) - 1) : ds[k].total_bytes > 0
    /\ \A k \in 1 .. (Len(ds) - 2) :
         /\ ds[k].total_bytes = ds[k + 1].total_bytes
         /\ ds[k].downloaded_bytes <= ds[k + 1].downloaded_bytes

WithinTotal(ds) ==
    \A k \in 1 .. (Len(ds) - 1) : ds[k].downloaded_bytes <= ds[k].total_bytes

\* C15 as stated: for every sequence of 'downloading' notifications with
\* byte counts followed by one 'finished', the percentages the relay emits
\* never decrease and the last one is exactly 100.
C15_MonotoneTo100 ==
    \A r \in Requests :
        LET t == tasks[r]
            ps == HookPercentages(t)
        IN  BytesThenFinished(t.notified) =>
                /\ NonDecreasing(ps)
                /\ Len(ps) >= 1 /\ ps[Len(ps)] = Rat(100, 1)

\* C15, amended: when the notifications carry one positive total_bytes and
\* downloaded_bytes that never decrease, the percentages of the
\* 'downloading' notifications never decrease and the last event, that of
\* 'finished', is exactly 100; the whole sequence with the final 100 is
\* non-decreasing exactly when no downloaded_bytes exceeds total_bytes.
C15_MonotoneWhenAdvancing ==
    \A r \in Requests :
        LET t == tasks[r]
            ps == HookPercentages(t)
        IN  (BytesThenFinished(t.notified) /\ Advancing(t.notified)) =>
                /\ NonDecreasing(DownloadingPercentages(t))
                /\ Len(ps) = Len(t.notified) /\ ps[Len(ps)] = Rat(100, 1)
                /\ NonDecreasing(ps) <=> WithinTotal(t.notified)

C15_Witness ==
    \E r \in Requests :
        LET ds == tasks[r].notified IN
        /\ BytesThenFinished(ds) /\ Advancing(ds) /\ WithinTotal(ds)
        /\ Len(ds) >= 3
        /\ ds[1].downloaded_bytes < ds[2].downloaded_bytes
        /\ Len(HookPercentages(tasks[r])) = 3

\* the characters of a text
CharsOf(text) == {text[k] : k \in 1 .. Len(text)}

\* a 'downloading' notification that gives the relay no percentage: no
\* usable total_bytes, and no percent string, or one without '%', or one that
\* float() refuses once the '%' is taken out
Unconvertible(d) ==
    /\ d.status = "downloading"
    /\ ~d.has_total \/ d.total_bytes = 0
    /\ \/ ~d.has_percent_str
       \/ "%" \notin CharsOf(d.percent_str)
       \/ ParseFloat(Remove(Strip(d.percent_str), "%")) = None

\* the step is the notification d reaching the relay of request r
Notified(r, d) ==
    /\ Len(tasks'[r].notified) = Len(tasks[r].notified) + 1
    /\ tasks'[r].notified[Len(tasks'[r].notified)] = d

\* C16: a 'downloading' notification the relay cannot turn into a
\* percentage emits no event, raises nothing and leaves download_progress as
\* it was; the download goes on and the notifications after it are handled
\* as usual: a convertible one emits one event with its percentage.
C16_UnparsableDropped ==
    [][\A r \in Requests : \A d \in HookNotifications :
          Notified(r, d) =>
              IF Unconvertible(d)
              THEN /\ tasks'[r].log = tasks[r].log
                   /\ tasks'[r].download_progress = tasks[r].download_progress
                   /\ tasks'[r].exc = <<>> /\ tasks'[r].fault = ""
                   /\ tasks'[r].pc = "download"
              ELSE /\ Len(tasks'[r].log) = Len(tasks[r].log) + 1
                   /\ tasks'[r].log[Len(tasks'[r].log)].percentage = tasks'[r].download_progress
                   /\ tasks'[r].download_progress # None]_vars

C16_Witness ==
    \E r \in Requests :
        LET t == tasks[r] IN
        /\ Len(t.notified) = 2
        /\ Unconvertible(t.notified[2]) /\ t.notified[2].has_percent_str
        /\ ~Unconvertible(t.notified[1])
        /\ Len(HookPercentages(t)) = 1
        /\ t.download_progress = HookPercentages(t)[1]
        /\ t.download_progress # Rat(0, 1)

\* the percentages of the 'Assembling transcript...' events of task t, in order
SampledPercentages(t) ==
    LET IsSample(e) == Stage(e) = 9
        events == SelectSeq(t.log, IsSample)
    IN  [k \in 1 .. Len(events) |-> events[k].percentage]

\* the percentages of the progress events of the transcribe phase, in order
TranscribePercentages(t) ==
    LET InPhase(e) == e.name = "progress" /\ e.phase = "transcribe"
        events == SelectSeq(t.log, InPhase)
    IN  [k \in 1 .. Len(events) |-> events[k].percentage]

\* C17: after n segments the loop has emitted 'Assembling transcript...' for
\* the indices 0, 10, 20, ... below n and for no other: ceil(n/10) events,
\* none for n = 0; the event of index i carries 80 + 15*i/(i+1), which is at
\* least 80 and below 95 and grows with i, so the percentages of the
\* transcribe phase (0, 10, 30, 80, the sampled ones, 100) never decrease.
C17_SampledProgress ==
    \A r \in Requests :
        LET t == tasks[r]
            n == Len(t.transcript_parts)
            ps == SampledPercentages(t)
        IN  t.fault = "" =>
                /\ Len(ps) = (n + 9) \div 10
                /\ \A k \in 1 .. Len(ps) :
                     LET i == 10 * (k - 1) IN
                     /\ RatEq(ps[k], Rat(80 * (i + 1) + 15 * i, i + 1))
                     /\ RatLeq(Rat(80, 1), ps[k]) /\ RatLt(ps[k], Rat(95, 1))
                /\ NonDecreasing(ps)
                /\ NonDecreasing(TranscribePercentages(t))

C17_Witness ==
    \E r \in Requests :
        LET t == tasks[r] IN
        /\ t.pc = "done" /\ t.fault = ""
        /\ Len(t.transcript_parts) = 21
        /\ Len(SampledPercentages(t)) = 3
        /\ RatLt(SampledPercentages(t)[2], SampledPercentages(t)[3])
        /\ Len(TranscribePercentages(t)) = 8

\* the orchestrator of task t has gone past its disk check
PastDiskCheck(t) == t.thread /\ t.pc # "start"

\* C18: when get_disk_usage gives no value, the orchestrator does not fail
\* at the disk check and emits no error for it: it makes its temporary
\* directory and calls the download tool.
C18_UnknownDiskProceeds ==
    \A r \in Requests :
        LET t == tasks[r] IN
        (PastDiskCheck(t) /\ t.free_mb = None) =>
            /\ t.fault # "disk"
            /\ t.temp_dir # NoDir
            /\ t.downloads = 1
            /\ \A k \in 1 .. Len(t.log) :
                 IsTerminal(t.log[k]) => t.log[k].error # <<"Insufficient disk space">>

C18_Witness ==
    \E r \in Requests :
        LET t == tasks[r] IN
        /\ t.pc = "download" /\ t.free_mb = None
        /\ t.temp_dir \in DOMAIN dirs /\ dirs[t.temp_dir].owner = r
        /\ t.downloads = 1 /\ t.hook
        /\ Len(t.log) = 1

====
